---- MODULE Spec2Model ----
(***************************************************************************)
(* SSE event-stream parsing of the agent console's API client.             *)
(*                                                                         *)
(* Four copies of the parse loop exist in the sources:                     *)
(*   "agent"          executeAgentWithLogs.parseSSEEvents   (part_002)     *)
(*   "workflow"       executeWorkflowWithSSE.parseSSEEvents (part_002)     *)
(*   "legacyAgent"    executeAgentWithLogs                  (lib/api.js)   *)
(*   "legacyWorkflow" executeWorkflowWithSSE                (lib/api.js)   *)
(*                                                                         *)
(* Text is a sequence of text units.  A unit is an indivisible piece of    *)
(* text: the newline, a blank, the field names "event:" and "data:", the   *)
(* brackets of a JSON text, one JSON member, or a word.  A chunk boundary  *)
(* may fall between any two units, so a chunk may end inside the prefix    *)
(* 'event: ' / 'data: ' (between the field name and the blank), inside a   *)
(* JSON text, or inside a line.  A JavaScript string value is, likewise,   *)
(* a sequence of units; '' is << >>.                                       *)
(***************************************************************************)
EXTENDS Integers, Sequences, FiniteSets, TLC

(* ------------------------------ bounds -------------------------------- *)

\* longest stream, in lines, the server sends under Spec
MaxLines == 3
\* longest chunk, in units, a read may return (besides "all that is left")
MaxChunk == 2
\* most members of the JSON object of the single frame sent under SpecFrame
MaxMembers == 2

(* ------------------------------ state --------------------------------- *)

VARIABLES
  impl,              \* which copy of the code runs
  mode,              \* "direct" or "gateway" (ENDPOINT === 'apigateway' ...)
  stream,            \* the text the server sends on the response body
  pos,               \* how much of it the reader has returned
  status,            \* "idle", "connected", "open", "resolved", "rejected"
  buffer,            \* let buffer
  currentEventType,  \* let currentEventType
  calls,             \* the invocations of onEvent so far
  lineNo,            \* complete lines read so far
  splitPrefix,       \* some chunk ended inside 'event: ' or 'data: '
  throwAt,           \* the invocations (by ordinal) at which the handler throws
  failure,           \* the request or read that failed, if one did
  peer,              \* a second invocation running at the same time, if any
  page,              \* the workflow page: its React state and handleExecute
  chat,              \* the ChatBot component: its state and the streaming run
  http               \* one call of apiRequest

\* the variables of the components that use the API client
appVars == << page, chat, http >>

\* the variables of the streaming functions
streamVars ==
  << impl, mode, stream, pos, status, buffer, currentEventType, calls, lineNo,
     splitPrefix, throwAt, failure, peer >>

vars == << streamVars, appVars >>

(* --------------------------- text and values -------------------------- *)

NL == "\n"
SP == " "

\* line.startsWith(prefix)
StartsWith(s, p) == Len(s) >= Len(p) /\ SubSeq(s, 1, Len(p)) = p

\* s.substring(n): what follows the first n units
Substring(s, n) == SubSeq(s, n + 1, Len(s))

\* s.trim(): leading and trailing white space removed
RECURSIVE Trim(_)
Trim(s) ==
  IF s = << >> THEN s
  ELSE IF Head(s) = SP THEN Trim(Tail(s))
  ELSE IF s[Len(s)] = SP THEN Trim(SubSeq(s, 1, Len(s) - 1))
  ELSE s

\* s.split('\n'): the pieces between newlines, always at least one piece
RECURSIVE Split(_)
Split(s) ==
  IF \A i \in 1..Len(s) : s[i] # NL THEN << s >>
  ELSE LET i == CHOOSE k \in 1..Len(s) :
                  s[k] = NL /\ \A j \in 1..(k - 1) : s[j] # NL
       IN << SubSeq(s, 1, i - 1) >> \o Split(SubSeq(s, i + 1, Len(s)))

\* JavaScript values: strings, undefined and null
Str(s) == [t |-> "string", v |-> s]
Undefined == [t |-> "undefined", v |-> << >>]
Null == [t |-> "null", v |-> << >>]
True == [t |-> "boolean", v |-> << "true" >>]
False == [t |-> "boolean", v |-> << "false" >>]

\* truthiness as used by `a || b` and `if (a)`
Truthy(x) ==
  \/ x.t = "string" /\ x.v # << >>
  \/ x.t = "boolean" /\ x.v = << "true" >>
  \/ x.t \in { "array", "object" }

\* a || b
Or(a, b) == IF Truthy(a) THEN a ELSE b

\* obj.k: the property, undefined when absent
Get(obj, k) == IF k \in DOMAIN obj THEN obj[k] ELSE Undefined

EVENT_PREFIX == << "event:", SP >>
DATA_PREFIX == << "data:", SP >>
MESSAGE == << "message" >>

(* ------------------------------- JSON --------------------------------- *)

\* the members a JSON object text may hold: the text unit, its key, its value
JsonMembers ==
  << [text |-> "\"type\":\"thought\"", key |-> "type", value |-> Str(<< "thought" >>)],
     [text |-> "\"type\":\"action\"", key |-> "type", value |-> Str(<< "action" >>)],
     [text |-> "\"type\":\"action_input\"", key |-> "type", value |-> Str(<< "action_input" >>)],
     [text |-> "\"type\":\"observation\"", key |-> "type", value |-> Str(<< "observation" >>)],
     [text |-> "\"type\":\"final_answer\"", key |-> "type", value |-> Str(<< "final_answer" >>)],
     [text |-> "\"type\":\"step_progress\"", key |-> "type", value |-> Str(<< "step_progress" >>)],
     [text |-> "\"type\":\"\"", key |-> "type", value |-> Str(<< >>)],
     [text |-> "\"content\":\"hi\"", key |-> "content", value |-> Str(<< "hi" >>)],
     [text |-> "\"content\":\"\"", key |-> "content", value |-> Str(<< >>)],
     [text |-> "\"answer\":\"A\"", key |-> "answer", value |-> Str(<< "A" >>)],
     [text |-> "\"message\":\"B\"", key |-> "message", value |-> Str(<< "B" >>)],
     [text |-> "\"thought\":\"T\"", key |-> "thought", value |-> Str(<< "T" >>)],
     [text |-> "\"action\":\"go\"", key |-> "action", value |-> Str(<< "go" >>)],
     [text |-> "\"observation\":\"O\"", key |-> "observation", value |-> Str(<< "O" >>)],
     [text |-> "\"agent_id\":null", key |-> "agent_id", value |-> Null],
     [text |-> "\"step\":\"1\"", key |-> "step", value |-> Str(<< "1" >>)] >>

MemberOf(u) == CHOOSE i \in 1..Len(JsonMembers) : JsonMembers[i].text = u
IsMember(u) == \E i \in 1..Len(JsonMembers) : JsonMembers[i].text = u

\* JSON.parse(text): ok is FALSE when it throws.  An object text is "{",
\* members, "}" (a later member of the same key wins); "[" "]" is the empty
\* array, which has no named property.  Every other text of the model
\* (words, an unclosed brace) is not JSON.
JSONParse(text) ==
  IF /\ Len(text) >= 2
     /\ text[1] = "{"
     /\ text[Len(text)] = "}"
     /\ \A i \in 2..(Len(text) - 1) : IsMember(text[i])
  THEN LET keys == { JsonMembers[MemberOf(text[i])].key : i \in 2..(Len(text) - 1) }
           last(k) == CHOOSE i \in 2..(Len(text) - 1) :
                        /\ JsonMembers[MemberOf(text[i])].key = k
                        /\ \A j \in (i + 1)..(Len(text) - 1) :
                             JsonMembers[MemberOf(text[j])].key # k
       IN [ok |-> TRUE,
           value |-> [k \in keys |-> JsonMembers[MemberOf(text[last(k)])].value]]
  ELSE IF text = << "[", "]" >> THEN [ok |-> TRUE, value |-> << >>]
  ELSE [ok |-> FALSE, value |-> << >>]

\* dataStr.toLowerCase(), unit by unit
ToLowerCase(s) ==
  [i \in 1..Len(s) |-> IF s[i] = "Connected" THEN "connected" ELSE s[i]]

\* s.includes('connect'): some unit of s has the substring
IncludesConnect(s) == \E i \in 1..Len(s) : s[i] \in {"connected", "connect"}

\* dataStr === 'Connected' || dataStr.toLowerCase().includes('connect')
IsConnectionMessage(dataStr) ==
  dataStr = << "Connected" >> \/ IncludesConnect(ToLowerCase(dataStr))

(* ------------------- event type and payload (4.3) --------------------- *)

Impls == {"agent", "workflow", "legacyAgent", "legacyWorkflow"}
\* the copies that normalise the payload (part_002)
Normalising == {"agent", "workflow"}

typeMap ==
  [k \in { << "thought" >>, << "action" >>, << "action_input" >>,
           << "observation" >>, << "final_answer" >> } |->
     IF k = << "thought" >> THEN << "thinking" >> ELSE k]

\* typeMap[data.type] || data.type, for a truthy data.type
MapType(type) == IF type.v \in DOMAIN typeMap THEN typeMap[type.v] ELSE type.v

\* mutant of FallbackType: the table is applied whatever the event line said
FallbackType_IgnoresEventLine(eventType, data) ==
  IF Truthy(Get(data, "type")) THEN MapType(Get(data, "type")) ELSE eventType

\* the fallback: eventType === 'message' && data.type
FallbackType(eventType, data) ==
  IF eventType = MESSAGE /\ Truthy(Get(data, "type"))
  THEN MapType(Get(data, "type"))
  ELSE eventType

\* eventType === 'action' && data.type === 'action_input' (agent copy only)
ActionInputOverride(eventType, data) ==
  IF eventType = << "action" >> /\ Get(data, "type") = Str(<< "action_input" >>)
  THEN << "action_input" >>
  ELSE eventType

\* the event type the handler is called with
ResolveEventType(im, eventType, data) ==
  IF im = "agent"
  THEN ActionInputOverride(FallbackType(eventType, data), data)
  ELSE IF im = "workflow" THEN FallbackType(eventType, data)
  ELSE eventType

\* the fields the content is looked for in, in this order
ContentFields ==
  << "content", "answer", "message", "thought", "action", "observation" >>

RECURSIVE FirstTruthy(_, _)
FirstTruthy(data, fields) ==
  IF fields = << >> THEN Str(<< >>)
  ELSE Or(Get(data, Head(fields)), FirstTruthy(data, Tail(fields)))

\* mutant of ExtractContent: message is looked at before answer
ExtractContent_MessageFirst(data) ==
  FirstTruthy(data, << "content", "message", "answer", "thought", "action", "observation" >>)

\* data.content || data.answer || data.message || data.thought
\*   || data.action || data.observation || ''
ExtractContent(data) == FirstTruthy(data, ContentFields)

PassThrough == {"agent_id", "agent_name", "timestamp", "type", "metadata"}

\* mutant of NormalizedData: the object is not spread into the payload
NormalizedData_NoSpread(data) ==
  [k \in {"content"} \cup PassThrough |->
     IF k = "content" THEN Or(ExtractContent(data), Get(data, "content"))
     ELSE Get(data, k)]

\* { ...data, content: content || data.content, agent_id: data.agent_id, ... }
NormalizedData(data) ==
  [k \in DOMAIN data \cup {"content"} \cup PassThrough |->
     IF k = "content" THEN Or(ExtractContent(data), Get(data, "content"))
     ELSE Get(data, k)]

\* what the handler receives: the normalised payload, or the parsed value as
\* it is in the lib/api.js copies
Payload(im, data) == IF im \in Normalising THEN NormalizedData(data) ELSE data

(* --------------------------- the line parser -------------------------- *)

\* The parser state of one stream: buffer and currentEventType are the
\* loop's variables; calls is the record of the handler's invocations and
\* lineNo the count of complete lines read, both kept for the properties;
\* thrown says that an exception is propagating.
InitialParser ==
  [buffer |-> << >>, currentEventType |-> MESSAGE, calls |-> << >>, lineNo |-> 0,
   thrown |-> FALSE]

\* the handler throws at its n-th invocation
HandlerThrows(n) == n \in throwAt

\* onEvent(eventType, normalizedData): the call is made, and may throw
Emit(im, st, data) ==
  [st EXCEPT !.calls = Append(@, [eventType |-> ResolveEventType(im, st.currentEventType, data),
                                  data |-> Payload(im, data),
                                  line |-> st.lineNo]),
             !.thrown = HandlerThrows(Len(st.calls) + 1)]

\* mutant of CatchCallbackError: the handler's exception is not caught
CatchCallbackError_Rethrows(st) == st

\* the catch round the handler's call: catch (callbackError) in the agent
\* copy, the catch (e) that also covers JSON.parse in the other copies
CatchCallbackError(st) == [st EXCEPT !.thrown = FALSE]

\* mutant of ResetEventType: the reset is left out
ResetEventType_Missing(st) == st

\* currentEventType = 'message' after a data line
ResetEventType(st) == [st EXCEPT !.currentEventType = MESSAGE]

\* mutant of ConnectionNotice: continue without the reset
ConnectionNotice_KeepsType(st) == st

\* 'Connected' and the like: reset, continue
ConnectionNotice(st) == [st EXCEPT !.currentEventType = MESSAGE]

\* mutant of SkipNonJson: the event type is kept
SkipNonJson_KeepsType(st) == st

\* other text that is not JSON: warn, reset, continue
SkipNonJson(st) == [st EXCEPT !.currentEventType = MESSAGE]

\* mutant of ParseFailure: the failure is reported to the handler
ParseFailure_EmitsError(st) ==
  [st EXCEPT !.calls = Append(@, [eventType |-> << "error" >>,
                                  data |-> [k \in {"error"} |-> Str(<< "parse" >>)],
                                  line |-> st.lineNo])]

\* catch (e) of JSON.parse: log, nothing else
ParseFailure(st) == st

\* mutant of EmptyData: the line has no effect at all
EmptyData_NoEffect(st) == st

\* if (dataStr) is false: nothing but the reset after the if
EmptyData(st) == [st EXCEPT !.currentEventType = MESSAGE]

\* !dataStr.startsWith('{') && !dataStr.startsWith('[')
NotJsonLike(dataStr) ==
  ~StartsWith(dataStr, << "{" >>) /\ ~StartsWith(dataStr, << "[" >>)

\* the body of `if (line.startsWith('data: '))` in part_002
NormalisingDataLine(im, st, dataStr) ==
  IF dataStr = << >> THEN EmptyData(st)
  ELSE IF NotJsonLike(dataStr)
       THEN IF IsConnectionMessage(dataStr) THEN ConnectionNotice(st)
            ELSE SkipNonJson(st)
  ELSE LET r == JSONParse(dataStr)
       IN IF r.ok THEN ResetEventType(CatchCallbackError(Emit(im, st, r.value)))
          ELSE ResetEventType(ParseFailure(st))

\* the body of `if (line.startsWith('data: '))` in lib/api.js
LegacyDataLine(im, st, dataStr) ==
  IF dataStr = << >> THEN EmptyData(st)
  ELSE LET r == JSONParse(dataStr)
       IN IF r.ok THEN ResetEventType(CatchCallbackError(Emit(im, st, r.value)))
          ELSE ResetEventType(ParseFailure(st))

\* mutant of EventLine: a later 'event:' line does not replace the type
EventLine_FirstWins(st, line) ==
  IF st.currentEventType = MESSAGE
  THEN [st EXCEPT !.currentEventType = Trim(Substring(line, Len(EVENT_PREFIX)))]
  ELSE st

\* currentEventType = line.substring(7).trim()
EventLine(st, line) ==
  [st EXCEPT !.currentEventType = Trim(Substring(line, Len(EVENT_PREFIX)))]

\* one iteration of `for (const line of lines)`
ProcessLine(im, st0, line) ==
  LET st == [st0 EXCEPT !.lineNo = @ + 1]
  IN IF StartsWith(line, EVENT_PREFIX) THEN EventLine(st, line)
     ELSE IF StartsWith(line, DATA_PREFIX)
          THEN LET dataStr == Trim(Substring(line, Len(DATA_PREFIX)))
               IN IF im \in Normalising THEN NormalisingDataLine(im, st, dataStr)
                  ELSE LegacyDataLine(im, st, dataStr)
     ELSE st

\* mutant of ProcessLines: only the last line of a chunk is processed
ProcessLines_LastOnly(im, st, lines) ==
  IF lines = << >> THEN st
  ELSE ProcessLine(im, [st EXCEPT !.lineNo = @ + Len(lines) - 1], lines[Len(lines)])

\* for (const line of lines) { ... }; an exception leaves the loop
RECURSIVE ProcessLines(_, _, _)
ProcessLines(im, st, lines) ==
  IF lines = << >> \/ st.thrown THEN st
  ELSE ProcessLines(im, ProcessLine(im, st, Head(lines)), Tail(lines))

\* mutant of KeepIncomplete: the incomplete line is dropped
KeepIncomplete_Dropped(lines) == << >>

\* buffer = lines.pop() || '': the piece after the last newline
KeepIncomplete(lines) == lines[Len(lines)]

\* mutant of ProcessChunk: the piece after the last newline is parsed too
ProcessChunk_Eager(im, st, chunk) ==
  LET lines == Split(st.buffer \o chunk)
  IN ProcessLines(im, [st EXCEPT !.buffer = KeepIncomplete(lines)], lines)

\* the loop body after a read that is not done:
\*   buffer += decode(value); lines = buffer.split('\n');
\*   buffer = lines.pop() || ''; for (const line of lines) ...
ProcessChunk(im, st, chunk) ==
  LET lines == Split(st.buffer \o chunk)
  IN ProcessLines(im, [st EXCEPT !.buffer = KeepIncomplete(lines)],
                  SubSeq(lines, 1, Len(lines) - 1))

(* ----------------------------- the streams ---------------------------- *)

\* the lines a stream under Spec is made of (without their newline)
SampleLines ==
  << << "event:", SP, "foo", SP >>,
     << "data:", SP, "{", "\"type\":\"thought\"", "}" >>,
     << "data:", SP, "{", "not valid json" >>,
     << "data:", SP, "Connected" >>,
     << "data:", SP, "hello" >> >>

RECURSIVE TextOf(_)
TextOf(ls) ==
  IF ls = << >> THEN << >>
  ELSE SampleLines[Head(ls)] \o << NL >> \o TextOf(Tail(ls))

\* every stream of at most MaxLines sample lines, each newline-terminated
Streams ==
  { TextOf(ls) : ls \in UNION { [1..k -> 1..Len(SampleLines)] : k \in 0..MaxLines } }

\* the event lines a single frame may start with (none, or one of these)
FrameEventLines ==
  { << >>,
    << "event:", SP, "custom_event", NL >>,
    << "event:", SP, "action", NL >>,
    << "event:", SP, "message", NL >> }

RECURSIVE MemberTexts(_)
MemberTexts(S) ==
  IF S = {} THEN << >>
  ELSE LET i == CHOOSE x \in S : \A y \in S : x <= y
       IN << JsonMembers[i].text >> \o MemberTexts(S \ {i})

\* the member sets of a frame's object: at most MaxMembers, no key twice
MemberSets ==
  { S \in SUBSET (1..Len(JsonMembers)) :
      /\ Cardinality(S) <= MaxMembers
      /\ \A i, j \in S : i # j => JsonMembers[i].key # JsonMembers[j].key }

\* one frame: an optional event line and a data line with a JSON object
FrameStreams ==
  { e \o << "data:", SP, "{" >> \o MemberTexts(S) \o << "}", NL >> :
      e \in FrameEventLines, S \in MemberSets }

(* --------------------------- the state machine ------------------------ *)

\* the components are not mounted, no request is made
NoPage == [pc |-> "none"]
NoChat == [pc |-> "none"]
NoHttp == [pc |-> "none"]
NoApp == page = NoPage /\ chat = NoChat /\ http = NoHttp

\* no second invocation (burst: the handler calls of its last loop pass)
NoPeer ==
  [impl |-> "none", stream |-> << >>, pos |-> 0, status |-> "none",
   buffer |-> << >>, currentEventType |-> << >>, calls |-> << >>, lineNo |-> 0,
   burst |-> 0]

\* the body of a response that is not ok: text that is not JSON, or an object
NoBody == [ok |-> FALSE, value |-> << >>]
ErrorBodies ==
  { NoBody,
    [ok |-> TRUE, value |-> << >>],
    [ok |-> TRUE, value |-> [detail |-> Str(<< "boom" >>)]],
    [ok |-> TRUE, value |-> [error |-> Str(<< "bad" >>)]],
    [ok |-> TRUE, value |-> [message |-> Str(<< "msg" >>)]],
    [ok |-> TRUE, value |-> [detail |-> Str(<< "boom" >>), error |-> Str(<< "bad" >>)]] }

\* response.status, as `${response.status}` prints it
StatusCodes == { "500", "503" }

NoFailure == [kind |-> "none", phase |-> "none", code |-> "", body |-> NoBody]

InitWith(streams) ==
  /\ impl \in Impls
  /\ mode = "direct"
  /\ stream \in streams
  /\ pos = 0
  /\ status = "idle"
  /\ buffer = InitialParser.buffer
  /\ currentEventType = InitialParser.currentEventType
  /\ calls = InitialParser.calls
  /\ lineNo = InitialParser.lineNo
  /\ splitPrefix = FALSE
  /\ throwAt = {}
  /\ failure = NoFailure
  /\ peer = NoPeer
  /\ NoApp

Init == InitWith(Streams)
InitFrame == InitWith(FrameStreams)

\* mutant of Ready: the execute request does not wait for the connect
\* request
Ready_WithoutConnect == status \in {"idle", "connected"}

\* the request whose response carries the events may be sent: at once in
\* direct mode, after the connect request in gateway mode
Ready == (mode = "direct" /\ status = "idle") \/ status = "connected"

\* the response is ok: response.body.getReader(), the loop is entered
Open ==
  /\ Ready
  /\ status' = "open"
  /\ UNCHANGED << impl, mode, stream, pos, buffer, currentEventType, calls, lineNo,
                  splitPrefix, throwAt, failure, peer >>
  /\ UNCHANGED appVars

\* `HTTP ${response.status}`
HttpStatus(code) == << "HTTP ", code >>

\* await response.json().catch(() => ({ error: `HTTP ${response.status}` }))
ErrorData(body, code) ==
  IF body.ok THEN body.value ELSE [error |-> Str(HttpStatus(code))]

\* mutant of DefaultMessage: the same text for every request
DefaultMessage_Plain(im, md, phase, code) == HttpStatus(code)

\* the last operand of the || chain of the thrown Error's message
DefaultMessage(im, md, phase, code) ==
  IF phase = "connect" THEN << "Failed to connect to SSE endpoint: " >> \o HttpStatus(code)
  ELSE IF md = "gateway" /\ im = "agent" THEN << "Failed to execute agent: " >> \o HttpStatus(code)
  ELSE IF md = "gateway" /\ im = "workflow" THEN << "Failed to execute workflow: " >> \o HttpStatus(code)
  ELSE HttpStatus(code)

\* mutant of ErrorMessage: the body is not looked at
ErrorMessage_StatusOnly(im, md, phase, body, code) == HttpStatus(code)

\* new Error(errorData.detail || errorData.error || `...HTTP ${status}`).message
ErrorMessage(im, md, phase, body, code) ==
  LET errorData == ErrorData(body, code)
  IN Or(Or(Get(errorData, "detail"), Get(errorData, "error")),
        Str(DefaultMessage(im, md, phase, code))).v

\* catch (error) { if (onEvent) onEvent('error', { error: error.message }) ...
ErrorCall(msg) ==
  [eventType |-> << "error" >>, data |-> [error |-> Str(msg)], line |-> 0]

\* !response.ok: throw, caught by the outer catch: onEvent('error', ...), rethrow
OpenFail ==
  /\ Ready
  /\ \E body \in ErrorBodies, code \in StatusCodes :
       /\ calls' = Append(calls, ErrorCall(ErrorMessage(impl, mode, "execute", body, code)))
       /\ failure' = [kind |-> "status", phase |-> "execute", code |-> code, body |-> body]
  /\ status' = "rejected"
  /\ UNCHANGED << impl, mode, stream, pos, buffer, currentEventType, lineNo,
                  splitPrefix, throwAt, peer >>
  /\ UNCHANGED appVars

\* gateway mode: the GET /sse/connect response is ok; its reader is cancelled
Connect ==
  /\ mode = "gateway"
  /\ status = "idle"
  /\ status' = "connected"
  /\ UNCHANGED << impl, mode, stream, pos, buffer, currentEventType, calls, lineNo,
                  splitPrefix, throwAt, failure, peer >>
  /\ UNCHANGED appVars

\* gateway mode: !sseResponse.ok
ConnectFail ==
  /\ mode = "gateway"
  /\ status = "idle"
  /\ \E body \in ErrorBodies, code \in StatusCodes :
       /\ calls' = Append(calls, ErrorCall(ErrorMessage(impl, mode, "connect", body, code)))
       /\ failure' = [kind |-> "status", phase |-> "connect", code |-> code, body |-> body]
  /\ status' = "rejected"
  /\ UNCHANGED << impl, mode, stream, pos, buffer, currentEventType, lineNo,
                  splitPrefix, throwAt, peer >>
  /\ UNCHANGED appVars

\* the message of the TypeError a failed fetch or read rejects with
NETWORK_ERROR == << "Failed to fetch" >>

\* fetch(...) rejects.  In the part_002 copies and in lib/api.js's
\* executeWorkflowWithSSE the await is inside the try; in lib/api.js's
\* executeAgentWithLogs the fetch's promise is awaited by Promise.all,
\* before the try, so the rejection leaves the function at once.
FetchReject ==
  /\ status \in {"idle", "connected"}
  /\ calls' = IF impl = "legacyAgent" THEN calls
              ELSE Append(calls, ErrorCall(NETWORK_ERROR))
  /\ failure' = [kind |-> "network",
                 phase |-> IF mode = "gateway" /\ status = "idle" THEN "connect" ELSE "execute",
                 code |-> "", body |-> NoBody]
  /\ status' = "rejected"
  /\ UNCHANGED << impl, mode, stream, pos, buffer, currentEventType, lineNo,
                  splitPrefix, throwAt, peer >>
  /\ UNCHANGED appVars

\* what apiRequest returns as error for a failed POST /execute
EXECUTE_ERROR == << "execute failed" >>

\* lib/api.js executeAgentWithLogs: if (executeResult && executeResult.error)
ExecuteFailed ==
  /\ impl = "legacyAgent"
  /\ status = "idle"
  /\ calls' = Append(calls, ErrorCall(EXECUTE_ERROR))
  /\ failure' = [kind |-> "execute", phase |-> "execute", code |-> "", body |-> NoBody]
  /\ status' = "rejected"
  /\ UNCHANGED << impl, mode, stream, pos, buffer, currentEventType, lineNo,
                  splitPrefix, throwAt, peer >>
  /\ UNCHANGED appVars

\* the sizes of the chunk the next read may return
ChunkSizes ==
  { n \in 0..MaxChunk : pos + n <= Len(stream) } \cup { Len(stream) - pos }

\* reader.read() returns { done: false, value }: one pass of the loop body;
\* an exception that leaves the loop is caught by the outer catch
Deliver ==
  /\ status = "open"
  /\ \E n \in ChunkSizes :
       LET st == ProcessChunk(impl,
                              [buffer |-> buffer, currentEventType |-> currentEventType,
                               calls |-> calls, lineNo |-> lineNo, thrown |-> FALSE],
                              SubSeq(stream, pos + 1, pos + n))
       IN /\ pos' = pos + n
          /\ buffer' = st.buffer
          /\ currentEventType' = st.currentEventType
          /\ calls' = IF st.thrown THEN Append(st.calls, ErrorCall(<< "handler failed" >>))
                      ELSE st.calls
          /\ status' = IF st.thrown THEN "rejected" ELSE status
          /\ lineNo' = st.lineNo
          /\ splitPrefix' = (splitPrefix \/ st.buffer \in { << "event:" >>, << "data:" >> })
  /\ UNCHANGED << impl, mode, stream, throwAt, failure, peer >>
  /\ UNCHANGED appVars

\* mutant of End: the loop is left before the stream's end
End_BeforeLastChunk ==
  /\ status = "open"
  /\ status' = "resolved"
  /\ UNCHANGED << impl, mode, stream, pos, buffer, currentEventType, calls, lineNo,
                  splitPrefix, throwAt, failure, peer >>
  /\ UNCHANGED appVars

\* mutant of End: what is left in the buffer is read as a last line
End_FlushesBuffer ==
  /\ status = "open"
  /\ pos = Len(stream)
  /\ status' = "resolved"
  /\ LET st == ProcessChunk(impl,
                            [buffer |-> buffer, currentEventType |-> currentEventType,
                             calls |-> calls, lineNo |-> lineNo, thrown |-> FALSE],
                            IF buffer = << >> THEN << >> ELSE << NL >>)
     IN /\ buffer' = st.buffer
        /\ currentEventType' = st.currentEventType
        /\ calls' = st.calls
        /\ lineNo' = st.lineNo
  /\ UNCHANGED << impl, mode, stream, pos, splitPrefix, throwAt, failure, peer >>
  /\ UNCHANGED appVars

\* reader.read() returns { done: true }: break, return { success: true }
End ==
  /\ status = "open"
  /\ pos = Len(stream)
  /\ status' = "resolved"
  /\ UNCHANGED << impl, mode, stream, pos, buffer, currentEventType, calls, lineNo,
                  splitPrefix, throwAt, failure, peer >>
  /\ UNCHANGED appVars

\* mutant of ReadFail: a failed read ends the loop as { done: true } does
ReadFail_AsEnd ==
  /\ status = "open"
  /\ failure' = [kind |-> "read", phase |-> "read", code |-> "", body |-> NoBody]
  /\ status' = "resolved"
  /\ UNCHANGED << impl, mode, stream, pos, buffer, currentEventType, calls, lineNo,
                  splitPrefix, throwAt, peer >>
  /\ UNCHANGED appVars

\* await reader.read() rejects: the exception leaves parseSSEEvents and is
\* caught by the outer catch: onEvent('error', ...), rethrow
ReadFail ==
  /\ status = "open"
  /\ calls' = Append(calls, ErrorCall(NETWORK_ERROR))
  /\ failure' = [kind |-> "read", phase |-> "read", code |-> "", body |-> NoBody]
  /\ status' = "rejected"
  /\ UNCHANGED << impl, mode, stream, pos, buffer, currentEventType, lineNo,
                  splitPrefix, throwAt, peer >>
  /\ UNCHANGED appVars

Next == Open \/ OpenFail \/ Deliver \/ End

Spec == Init /\ [][Next]_vars
SpecFrame == InitFrame /\ [][Next]_vars

(* ----------------------- a handler that may throw --------------------- *)

\* nothing has been requested yet
Idle ==
  /\ pos = 0
  /\ status = "idle"
  /\ buffer = InitialParser.buffer
  /\ currentEventType = InitialParser.currentEventType
  /\ calls = InitialParser.calls
  /\ lineNo = InitialParser.lineNo
  /\ splitPrefix = FALSE
  /\ failure = NoFailure
  /\ NoApp

\* every stream of at most MaxLines lines, each 'event: foo ' or a JSON
\* data line
ThrowStreams ==
  { TextOf(ls) : ls \in UNION { [1..k -> {1, 2}] : k \in 0..MaxLines } }

\* the caller's onEvent throws at some of its invocations
InitThrow ==
  /\ impl \in Impls
  /\ mode = "direct"
  /\ stream \in ThrowStreams
  /\ Idle
  /\ throwAt \in SUBSET (1..MaxLines)
  /\ peer = NoPeer

SpecThrow == InitThrow /\ [][Next]_vars

(* ------------------- a last line without its newline ------------------ *)

\* streams whose last line, 'event: foo ' or a JSON data line, is not
\* followed by a newline, after fewer than MaxLines complete lines
TailStreams ==
  { TextOf(ls) \o SampleLines[j] :
      ls \in UNION { [1..k -> {1, 2}] : k \in 0..(MaxLines - 1) }, j \in {1, 2} }

InitTail ==
  /\ impl \in Impls
  /\ mode = "direct"
  /\ stream \in TailStreams
  /\ Idle
  /\ throwAt = {}
  /\ peer = NoPeer

SpecTail == InitTail /\ [][Next]_vars

(* --------------------------- other line shapes ------------------------ *)

\* lines of other shapes (without their newline): two 'event:' lines, a
\* blank line, a comment, 'data:' without the blank, an unknown field, an
\* empty 'data: ' line, a connection notice, other text, malformed JSON,
\* and a JSON data line
ShapeLines ==
  << << "event:", SP, "foo" >>,
     << "event:", SP, "bar" >>,
     << >>,
     << ": ping" >>,
     << "data:", "{", "\"type\":\"thought\"", "}" >>,
     << "id:", SP, "7" >>,
     << "data:", SP >>,
     << "data:", SP, "Connected" >>,
     << "data:", SP, "hello" >>,
     << "data:", SP, "{", "not valid json" >>,
     << "data:", SP, "{", "\"type\":\"thought\"", "}" >> >>

JSON_LINE == << Len(ShapeLines) >>

RECURSIVE ShapeText(_)
ShapeText(ls) ==
  IF ls = << >> THEN << >>
  ELSE ShapeLines[Head(ls)] \o << NL >> \o ShapeText(Tail(ls))

\* the streams that end with the JSON data line, after fewer than MaxLines
\* lines of the given shapes
StreamsEndingInJson(shapes) ==
  { ShapeText(ls \o JSON_LINE) :
      ls \in UNION { [1..k -> shapes] : k \in 0..(MaxLines - 1) } }

\* lines that are not 'data: ' lines
InitShape ==
  /\ impl \in Impls
  /\ mode = "direct"
  /\ stream \in StreamsEndingInJson(1..6)
  /\ Idle
  /\ throwAt = {}
  /\ peer = NoPeer

SpecShape == InitShape /\ [][Next]_vars

\* 'event: foo' and 'data: ' lines of every kind; the handler may throw at
\* its first invocation
InitCursor ==
  /\ impl \in Impls
  /\ mode = "direct"
  /\ stream \in StreamsEndingInJson({1} \cup 7..11)
  /\ Idle
  /\ throwAt \in { {}, {1} }
  /\ peer = NoPeer

SpecCursor == InitCursor /\ [][Next]_vars

(* ----------------------- two invocations at once ---------------------- *)

\* the streams of two invocations that run at the same time
PairStreams == { TextOf(<< 1, 2 >>), TextOf(<< 2, 2 >>) }

\* mutant of PeerParser: currentEventType is one variable for both
\* invocations
PeerParser_SharedCursor ==
  [buffer |-> peer.buffer, currentEventType |-> currentEventType,
   calls |-> peer.calls, lineNo |-> peer.lineNo, thrown |-> FALSE]

\* the locals of the second invocation's parseSSEEvents: each call of the
\* function declares its own buffer and currentEventType
PeerParser ==
  [buffer |-> peer.buffer, currentEventType |-> peer.currentEventType,
   calls |-> peer.calls, lineNo |-> peer.lineNo, thrown |-> FALSE]

PeerChunkSizes ==
  { n \in 0..MaxChunk : peer.pos + n <= Len(peer.stream) } \cup { Len(peer.stream) - peer.pos }

\* mutant of PeerDeliver: the pass runs while a pass of the first
\* invocation is running, the two handlers' calls falling between each other
PeerDeliver_InsideDeliver ==
  /\ peer.status = "open"
  /\ status = "open"
  /\ \E n \in PeerChunkSizes, m \in ChunkSizes :
       LET st == ProcessChunk(peer.impl, PeerParser,
                              SubSeq(peer.stream, peer.pos + 1, peer.pos + n))
           own == ProcessChunk(impl,
                               [buffer |-> buffer, currentEventType |-> currentEventType,
                                calls |-> calls, lineNo |-> lineNo, thrown |-> FALSE],
                               SubSeq(stream, pos + 1, pos + m))
       IN /\ peer' = [peer EXCEPT !.pos = peer.pos + n,
                                  !.buffer = st.buffer,
                                  !.currentEventType = st.currentEventType,
                                  !.calls = st.calls,
                                  !.lineNo = st.lineNo,
                                  !.burst = Len(st.calls) - Len(peer.calls)]
          /\ pos' = pos + m
          /\ buffer' = own.buffer
          /\ currentEventType' = own.currentEventType
          /\ calls' = own.calls
          /\ lineNo' = own.lineNo
  /\ UNCHANGED << impl, mode, stream, status, splitPrefix, throwAt, failure >>
  /\ UNCHANGED appVars

\* one pass of the second invocation's loop body: nothing in it awaits, so
\* no step of the first invocation falls inside it
PeerDeliver ==
  /\ peer.status = "open"
  /\ \E n \in PeerChunkSizes :
       LET st == ProcessChunk(peer.impl, PeerParser,
                              SubSeq(peer.stream, peer.pos + 1, peer.pos + n))
       IN peer' = [peer EXCEPT !.pos = peer.pos + n,
                               !.buffer = st.buffer,
                               !.currentEventType = st.currentEventType,
                               !.calls = st.calls,
                               !.lineNo = st.lineNo,
                               !.burst = Len(st.calls) - Len(peer.calls)]
  /\ UNCHANGED << impl, mode, stream, pos, status, buffer, currentEventType, calls,
                  lineNo, splitPrefix, throwAt, failure >>
  /\ UNCHANGED appVars

\* the second invocation's reader returns { done: true }
PeerEnd ==
  /\ peer.status = "open"
  /\ peer.pos = Len(peer.stream)
  /\ peer' = [peer EXCEPT !.status = "resolved"]
  /\ UNCHANGED << impl, mode, stream, pos, status, buffer, currentEventType, calls,
                  lineNo, splitPrefix, throwAt, failure >>
  /\ UNCHANGED appVars

\* a second invocation, of any of the copies, has its stream open
InitPair ==
  /\ impl \in Impls
  /\ mode = "direct"
  /\ stream \in PairStreams
  /\ Idle
  /\ throwAt = {}
  /\ \E im \in Impls, s \in PairStreams :
       peer = [impl |-> im, stream |-> s, pos |-> 0, status |-> "open",
               buffer |-> InitialParser.buffer,
               currentEventType |-> InitialParser.currentEventType,
               calls |-> InitialParser.calls, lineNo |-> InitialParser.lineNo,
               burst |-> 0]

NextPair == Next \/ PeerDeliver \/ PeerEnd

SpecPair == InitPair /\ [][NextPair]_vars

(* ------------------- requests and reads that may fail ----------------- *)

\* lib/api.js has no gateway mode
InitOpen ==
  /\ impl \in Impls
  /\ mode \in {"direct", "gateway"}
  /\ impl \in Normalising \/ mode = "direct"
  /\ stream \in ThrowStreams
  /\ Idle
  /\ throwAt = {}
  /\ peer = NoPeer

NextOpen == Next \/ Connect \/ ConnectFail \/ FetchReject \/ ExecuteFailed \/ ReadFail

SpecOpen == InitOpen /\ [][NextOpen]_vars

(* ------------------- the stream, read as a whole ---------------------- *)

\* These definitions describe the text that has been delivered, without
\* the buffer: the k-th line is what lies between the (k-1)-th and the
\* k-th newline.

Delivered == SubSeq(stream, 1, pos)

NewlinesOf(text) == { i \in 1..Len(text) : text[i] = NL }
NumLines(text) == Cardinality(NewlinesOf(text))
LineEnd(text, k) ==
  CHOOSE i \in NewlinesOf(text) :
    Cardinality({ j \in NewlinesOf(text) : j <= i }) = k
LineAt(text, k) ==
  SubSeq(text, IF k = 1 THEN 1 ELSE LineEnd(text, k - 1) + 1, LineEnd(text, k) - 1)

\* the k-th complete line delivered so far
Line(k) == LineAt(Delivered, k)
CompleteLines == 1..NumLines(Delivered)

IsEventLine(l) == StartsWith(l, EVENT_PREFIX)
EventTypeOf(l) == Trim(Substring(l, 2))
IsDataLine(l) == ~IsEventLine(l) /\ StartsWith(l, DATA_PREFIX)
DataOf(l) == Trim(Substring(l, 2))
JsonLike(d) == d # << >> /\ d[1] \in {"{", "["}
IsJsonDataLine(l) == IsDataLine(l) /\ JsonLike(DataOf(l)) /\ JSONParse(DataOf(l)).ok
IsSentinelLine(l) ==
  /\ IsDataLine(l)
  /\ DataOf(l) # << >>
  /\ ~JsonLike(DataOf(l))
  /\ IsConnectionMessage(DataOf(l))
IsMalformedLine(l) ==
  /\ IsDataLine(l)
  /\ DataOf(l) # << >>
  /\ \/ JsonLike(DataOf(l)) /\ ~JSONParse(DataOf(l)).ok
     \/ ~JsonLike(DataOf(l)) /\ ~IsConnectionMessage(DataOf(l))

\* the object parsed from the k-th line, a JSON data line
ObjectOf(k) == JSONParse(DataOf(Line(k))).value

\* the stream was opened and the handler's calls so far are stream events
Streaming == status \in {"open", "resolved"}

\* the handler was called for line k
CalledFor(k) == \E i \in 1..Len(calls) : calls[i].line = k

\* the event type and payload of each call, in order
Invocations(cs) == [i \in 1..Len(cs) |-> << cs[i].eventType, cs[i].data >>]

\* no 'error' event has been delivered
NoErrorEvent == \A i \in 1..Len(calls) : calls[i].eventType # << "error" >>

(* ------------------------------ C1 ------------------------------------ *)

\* C1: chunking invariance.  However the text delivered so far was split
\* into chunks, the handler has been invoked with the same sequence of
\* (eventType, payload) as when that text arrives as one single chunk.
C1_ChunkingInvariance ==
  Streaming =>
    Invocations(calls) = Invocations(ProcessChunk(impl, InitialParser, Delivered).calls)

\* a one-line stream whose 'data: ' prefix was cut by a chunk boundary, and
\* whose event has been delivered
C1_Witness ==
  /\ status = "resolved"
  /\ splitPrefix
  /\ NumLines(stream) = 1
  /\ Len(calls) = 1

(* ------------------------------ C2 ------------------------------------ *)

\* C2: ordering and no coalescing (part_002 copies).  The handler has been
\* invoked exactly once for each complete 'data: ' line whose trimmed
\* remainder starts with '{' or '[' and parses, for no other line, in the
\* order of the lines, each time with the payload of that line's own object.
C2_OrderedOncePerJsonLine ==
  (Streaming /\ impl \in Normalising) =>
    /\ \A k \in CompleteLines :
         IsJsonDataLine(Line(k)) =>
           Cardinality({ i \in 1..Len(calls) : calls[i].line = k }) = 1
    /\ \A i \in 1..Len(calls) :
         /\ calls[i].line \in CompleteLines
         /\ IsJsonDataLine(Line(calls[i].line))
         /\ calls[i].data = NormalizedData(ObjectOf(calls[i].line))
    /\ \A i, j \in 1..Len(calls) : i < j => calls[i].line < calls[j].line

\* two events, the second from the third line, after a line that gave none
C2_Witness ==
  /\ impl = "agent"
  /\ Len(calls) = 2
  /\ calls[1].line = 1
  /\ calls[2].line = 3
  /\ IsDataLine(Line(2))

(* ------------------------------ C3 ------------------------------------ *)

\* what the fallback table of the specification gives for a type value
TableImage(t) ==
  IF t = << "thought" >> THEN << "thinking" >> ELSE t

\* the call's line is read with currentEventType = 'message': it is the
\* first line, or follows an 'event: message' line
ReadAsMessage(k) ==
  k = 1 \/ (IsEventLine(Line(k - 1)) /\ EventTypeOf(Line(k - 1)) = MESSAGE)

\* C3: fallback type mapping (the copies the claim cites: the agent
\* functions of part_002 and of lib/api.js).  A JSON data line read while
\* currentEventType is "message" is emitted with the table image of the
\* object's type when it has one (thought -> thinking, every other value
\* unchanged), and with "message" when it has none.  An empty type value
\* is read as no type.
C3_FallbackTypeMapping ==
  (Streaming /\ impl \in {"agent", "legacyAgent"}) =>
    \A i \in 1..Len(calls) :
      ReadAsMessage(calls[i].line) =>
        LET data == ObjectOf(calls[i].line)
        IN calls[i].eventType =
             IF Truthy(Get(data, "type")) THEN TableImage(data["type"].v) ELSE MESSAGE

(* ------------------------------ C4 ------------------------------------ *)

\* the event type resolved before the action_input rule applies: the type
\* of the preceding 'event:' line, or the fallback when there is none
ResolvedSoFar(k) ==
  IF k > 1 /\ IsEventLine(Line(k - 1)) /\ EventTypeOf(Line(k - 1)) # MESSAGE
  THEN EventTypeOf(Line(k - 1))
  ELSE IF Truthy(Get(ObjectOf(k), "type")) THEN TableImage(ObjectOf(k)["type"].v)
  ELSE MESSAGE

\* C4: action/action_input disambiguation (part_002 copies).  When the
\* event type resolved so far is "action" and the object's type field is
\* "action_input", the handler is invoked with "action_input".
C4_ActionInputDisambiguation ==
  (Streaming /\ impl \in Normalising) =>
    \A i \in 1..Len(calls) :
      ( /\ ResolvedSoFar(calls[i].line) = << "action" >>
        /\ Get(ObjectOf(calls[i].line), "type") = Str(<< "action_input" >>) )
      => calls[i].eventType = << "action_input" >>

(* ------------------------------ C5 ------------------------------------ *)

\* C5: an explicit event type takes precedence.  When an 'event: X' line
\* with X other than "message" immediately precedes a JSON data line, the
\* handler is invoked with X whatever the object's type field is, except
\* in the one case X = "action" with type "action_input"; X is any string.
C5_ExplicitTypePrecedence ==
  Streaming =>
    \A i \in 1..Len(calls) :
      LET k == calls[i].line
      IN ( /\ k > 1
           /\ IsEventLine(Line(k - 1))
           /\ EventTypeOf(Line(k - 1)) # MESSAGE
           /\ ~ ( /\ EventTypeOf(Line(k - 1)) = << "action" >>
                  /\ Get(ObjectOf(k), "type") = Str(<< "action_input" >>) ) )
         => calls[i].eventType = EventTypeOf(Line(k - 1))

\* 'event: custom_event' before an object of type "thought": custom_event
C5_Witness ==
  /\ impl = "agent"
  /\ Len(calls) = 1
  /\ calls[1].line = 2
  /\ calls[1].eventType = << "custom_event" >>
  /\ calls[1].data["type"] = Str(<< "thought" >>)

(* ------------------------------ C6 ------------------------------------ *)

\* no 'event:' line lies strictly between lines a and b
NoEventLineBetween(a, b) == \A k \in (a + 1)..(b - 1) : ~IsEventLine(Line(k))

\* C6: reset after each data line.  An 'event:' line types at most one
\* emitted event: an event emitted with no 'event:' line since the previous
\* emitted event has type "message" or the mapped value of its own type.
C6_ResetAfterDataLine ==
  Streaming =>
    \A i \in 2..Len(calls) :
      NoEventLineBetween(calls[i - 1].line, calls[i].line) =>
        LET data == ObjectOf(calls[i].line)
        IN calls[i].eventType \in
             { MESSAGE } \cup
             ( IF "type" \in DOMAIN data THEN { TableImage(data["type"].v) } ELSE {} )

\* 'event: foo', a JSON data line, a JSON data line: "foo", then "thinking"
C6_Witness ==
  /\ impl = "agent"
  /\ lineNo = 3
  /\ IsEventLine(Line(1))
  /\ Len(calls) = 2
  /\ calls[1].eventType = << "foo" >>
  /\ calls[1].line = 2
  /\ calls[2].eventType = << "thinking" >>
  /\ calls[2].line = 3

(* ------------------------------ C7 ------------------------------------ *)

\* the priority of the content fields, first is 1
ContentRank(f) ==
  CASE f = "content" -> 1
    [] f = "answer" -> 2
    [] f = "message" -> 3
    [] f = "thought" -> 4
    [] f = "action" -> 5
    [] f = "observation" -> 6

\* the non-empty content fields of an object
NonEmptyFields(data) ==
  { f \in {"content", "answer", "message", "thought", "action", "observation"} :
      Truthy(Get(data, f)) }

\* C7: content extraction priority (part_002 copies).  When the object has
\* a non-empty value among content, answer, message, thought, action,
\* observation, the payload's content is the first of them in that order.
C7_ContentPriority ==
  (Streaming /\ impl \in Normalising) =>
    \A i \in 1..Len(calls) :
      LET data == ObjectOf(calls[i].line)
      IN NonEmptyFields(data) # {} =>
           \E f \in NonEmptyFields(data) :
             /\ \A g \in NonEmptyFields(data) : ContentRank(f) <= ContentRank(g)
             /\ calls[i].data["content"] = data[f]

\* {"answer":"A","message":"B"} gives content "A"
C7_Witness ==
  /\ Streaming
  /\ impl \in Normalising
  /\ Len(calls) = 1
  /\ DOMAIN ObjectOf(calls[1].line) = {"answer", "message"}
  /\ calls[1].data["content"] = Str(<< "A" >>)

(* ------------------------------ C8 ------------------------------------ *)

\* C8: content default (part_002 copies).  The payload's content is always
\* a string, and is the empty string when the object has no non-empty
\* content field.
C8_ContentDefault ==
  (Streaming /\ impl \in Normalising) =>
    \A i \in 1..Len(calls) :
      /\ calls[i].data["content"].t = "string"
      /\ NonEmptyFields(ObjectOf(calls[i].line)) = {} =>
           calls[i].data["content"] = Str(<< >>)

(* ------------------------------ C9 ------------------------------------ *)

\* C9: malformed data does not abort the stream.  A data line that looks
\* like JSON but does not parse, or is other text that is no connection
\* notice, gives no handler invocation and no 'error' event, the call is
\* not rejected, and every later valid JSON data line is still emitted.
C9_MalformedDoesNotAbort ==
  \A k \in CompleteLines :
    IsMalformedLine(Line(k)) =>
      /\ status # "rejected"
      /\ NoErrorEvent
      /\ ~CalledFor(k)
      /\ \A m \in CompleteLines : (m > k /\ IsJsonDataLine(Line(m))) => CalledFor(m)

\* 'data: {not valid json', then a valid JSON data line, which is emitted
C9_Witness ==
  /\ impl = "agent"
  /\ lineNo = 2
  /\ Line(1) = << "data:", SP, "{", "not valid json" >>
  /\ IsJsonDataLine(Line(2))
  /\ Len(calls) = 1
  /\ calls[1].line = 2
  /\ status = "resolved"

(* ------------------------------ C10 ----------------------------------- *)

\* C10: sentinel handling.  A data line that is a connection notice
\* ('Connected', or text containing 'connect') gives no handler invocation
\* and no 'error' event, does not reject the call, and leaves
\* currentEventType at "message", also after an 'event:' line.
C10_SentinelHandling ==
  \A k \in CompleteLines :
    IsSentinelLine(Line(k)) =>
      /\ status # "rejected"
      /\ NoErrorEvent
      /\ ~CalledFor(k)
      /\ k = lineNo => currentEventType = MESSAGE

\* 'event: foo' then 'data: Connected': nothing emitted, the type is reset
C10_Witness ==
  /\ impl \in Normalising
  /\ lineNo = 2
  /\ IsEventLine(Line(1))
  /\ EventTypeOf(Line(1)) = << "foo" >>
  /\ IsSentinelLine(Line(2))
  /\ calls = << >>
  /\ currentEventType = MESSAGE

(* ------------------------------ C11 ----------------------------------- *)

\* C11: handler exception containment.  When the handler has thrown for a
\* stream event, the call is not rejected, no 'error' event is emitted,
\* currentEventType is "message" once the event's line has been read, and
\* the handler has been invoked once for every JSON data line delivered,
\* those after the throwing one included.
C11_HandlerExceptionContained ==
  \A i \in throwAt :
    (i <= Len(calls) /\ calls[i].line > 0) =>
      /\ status # "rejected"
      /\ NoErrorEvent
      /\ calls[i].line = lineNo => currentEventType = MESSAGE
      /\ \A k \in CompleteLines : IsJsonDataLine(Line(k)) => CalledFor(k)
      /\ Len(calls) = Cardinality({ k \in CompleteLines : IsJsonDataLine(Line(k)) })

\* the workflow function's handler threw at its first event; the stream's
\* second event was delivered and the call resolved
C11_Witness ==
  /\ impl = "workflow"
  /\ throwAt = {1}
  /\ status = "resolved"
  /\ Len(calls) = 2
  /\ calls[1].line > 0

(* ------------------------------ C12 ----------------------------------- *)

\* C12: connection failure with a non-success status.  When a response that
\* should open the stream is not ok, the handler has been invoked exactly
\* once in total, with "error" and a payload { error: message }, the parser
\* has read nothing, and the call is rejected; for status 500 with the body
\* {"detail":"boom"} the message is "boom".
C12_StatusFailureReportedOnce ==
  failure.kind = "status" =>
    /\ status = "rejected"
    /\ Len(calls) = 1
    /\ calls[1].eventType = << "error" >>
    /\ DOMAIN calls[1].data = {"error"}
    /\ calls[1].data["error"].t = "string"
    /\ pos = 0 /\ lineNo = 0 /\ buffer = << >>
    /\ ( /\ failure.code = "500"
         /\ failure.body = [ok |-> TRUE, value |-> [detail |-> Str(<< "boom" >>)]] )
       => calls[1].data["error"] = Str(<< "boom" >>)

\* the workflow function got status 500 with {"detail":"boom"} and reported
\* "boom"
C12_Witness ==
  /\ impl = "workflow"
  /\ mode = "direct"
  /\ failure.kind = "status"
  /\ failure.code = "500"
  /\ failure.body = [ok |-> TRUE, value |-> [detail |-> Str(<< "boom" >>)]]
  /\ status = "rejected"
  /\ Invocations(calls) = << << << "error" >>, [error |-> Str(<< "boom" >>)] >> >>

(* ------------------------------ C13 ----------------------------------- *)

\* C13: the connection cannot be established.  In every copy of both
\* functions, when the fetch that opens the stream rejects, the handler has
\* been invoked exactly once, with "error", and the call is rejected.
C13_FetchRejectionReportedOnce ==
  failure.kind = "network" =>
    /\ status = "rejected"
    /\ Len(calls) = 1
    /\ calls[1].eventType = << "error" >>

(* ------------------------------ C14 ----------------------------------- *)

\* the message the 'error' event of a failed request carries
ReportedMessage == calls[Len(calls)].data["error"]

\* the fields of the error body that hold a non-empty string
PresentFields(fields) ==
  { f \in fields : failure.body.ok /\ Truthy(Get(failure.body.value, f)) }

EveryEventDelivered ==
  \A k \in 1..NumLines(stream) :
    IsJsonDataLine(LineAt(stream, k)) => CalledFor(k)

\* C15: the stream's life.  The call resolves only from the open state,
\* at the stream's end and after the handler has been invoked for every
\* event of the stream; once it has resolved, the handler is not invoked
\* again; a stream event is delivered only by a step that starts and ends
\* in the open state; before the stream is opened nothing is delivered.
C15_IdleOpenClosed ==
  [][ /\ status' = "resolved" =>
           (status = "open" /\ pos = Len(stream) /\ calls' = calls /\ EveryEventDelivered)
      /\ status = "resolved" => calls' = calls
      /\ (calls' # calls /\ calls'[Len(calls')].line > 0) =>
           (status = "open" /\ status' = "open")
      /\ status' \in {"idle", "connected"} => calls' = << >> ]_vars

\* a stream of three lines with two events, both delivered before the
\* call resolved
C15_Witness ==
  /\ status = "resolved"
  /\ NumLines(stream) = 3
  /\ Len(calls) = 2
  /\ NoErrorEvent

(* ------------------------------ C16 ----------------------------------- *)

\* the calls made before the last one
EarlierCalls == SubSeq(calls, 1, Len(calls) - 1)

\* C16 as stated: when a read of the open stream has failed, no 'error'
\* event has been emitted and the call is not rejected.
C16_ReadFailureAsEndOfStream ==
  failure.kind = "read" => (NoErrorEvent /\ status # "rejected")

\* C16, amended: when a read of the open stream has failed, the call is
\* rejected and the handler's last invocation is the one 'error' event,
\* carrying the failure's message; the invocations before it are the events
\* of the text delivered before the failure.
C16_ReadFailureEscalated ==
  failure.kind = "read" =>
    /\ status = "rejected"
    /\ calls # << >>
    /\ calls[Len(calls)].eventType = << "error" >>
    /\ calls[Len(calls)].data = [error |-> Str(NETWORK_ERROR)]
    /\ \A i \in 1..(Len(calls) - 1) : calls[i].eventType # << "error" >>
    /\ Invocations(EarlierCalls) =
         Invocations(ProcessChunk(impl, InitialParser, Delivered).calls)

\* one event was delivered, then a read failed
C16_Witness ==
  /\ impl = "agent"
  /\ failure.kind = "read"
  /\ Len(calls) = 2
  /\ calls[1].line = 1
  /\ calls[2].eventType = << "error" >>
  /\ pos < Len(stream)

(* ------------------------------ C17 ----------------------------------- *)

\* the text after the last newline of a text
Unterminated(text) ==
  LET nls == NewlinesOf(text)
      last == IF nls = {} THEN 0 ELSE CHOOSE i \in nls : \A j \in nls : j <= i
  IN SubSeq(text, last + 1, Len(text))

\* C17: the trailing unterminated line is dropped.  When the call has
\* resolved, the text after the stream's last newline is still in the
\* buffer, unparsed: the handler has been invoked once for each JSON data
\* line that a newline ends and for nothing else, and with no 'error'.
C17_TrailingLineDropped ==
  status = "resolved" =>
    /\ buffer = Unterminated(stream)
    /\ lineNo = NumLines(stream)
    /\ \A i \in 1..Len(calls) : calls[i].line \in 1..NumLines(stream)
    /\ Len(calls) =
         Cardinality({ k \in 1..NumLines(stream) : IsJsonDataLine(LineAt(stream, k)) })
    /\ NoErrorEvent

\* the stream was one JSON data line without a newline: nothing was
\* delivered
C17_Witness ==
  /\ impl = "agent"
  /\ status = "resolved"
  /\ IsJsonDataLine(stream)
  /\ buffer = stream
  /\ calls = << >>

(* ------------------------------ C18 ----------------------------------- *)

\* C18: identical parsing core.  The agent function's parser has invoked
\* the handler with the same sequence of (eventType, payload) as the
\* workflow function's parser gives for the same delivered text.
C18_IdenticalParsingCore ==
  (Streaming /\ impl = "agent") =>
    Invocations(calls) =
      Invocations(ProcessChunk("workflow", InitialParser, Delivered).calls)

(* ------------------------------ C19 ----------------------------------- *)

\* the parser's state after reading a text from the start, with no other
\* invocation
Alone(im, text) == ProcessChunk(im, InitialParser, text)

\* C19: independence of concurrent streams.  With the chunks of two
\* invocations arriving interleaved, each invocation's handler calls, its
\* buffer and its currentEventType are those it has when it reads the same
\* text with no other invocation running.
C19_IndependentStreams ==
  /\ Streaming =>
       /\ Invocations(calls) = Invocations(Alone(impl, Delivered).calls)
       /\ buffer = Alone(impl, Delivered).buffer
       /\ currentEventType = Alone(impl, Delivered).currentEventType
  /\ peer.status \in {"open", "resolved"} =>
       LET seen == SubSeq(peer.stream, 1, peer.pos)
       IN /\ Invocations(peer.calls) = Invocations(Alone(peer.impl, seen).calls)
          /\ peer.buffer = Alone(peer.impl, seen).buffer
          /\ peer.currentEventType = Alone(peer.impl, seen).currentEventType

\* both invocations are in the middle of their streams: one has read
\* 'event: foo' and part of the next line, the other has delivered an event
\* and holds part of its second line
C19_Witness ==
  /\ status = "open"
  /\ currentEventType = << "foo" >>
  /\ buffer # << >>
  /\ calls = << >>
  /\ peer.status = "open"
  /\ Len(peer.calls) = 1
  /\ peer.buffer # << >>
  /\ peer.currentEventType = MESSAGE

(* ------------------------------ C20 ----------------------------------- *)

\* C20: payload assembly preserves the original object (part_002 copies).
\* Every field of the parsed object other than content is in the payload
\* with its original value; agent_id, agent_name, timestamp, type and
\* metadata are in the payload with the object's value, null when the
\* object has null and undefined when the object has no such field; so
\* type is the object's own type also when the event type was remapped.
C20_PayloadPreservesObject ==
  (Streaming /\ impl \in Normalising) =>
    \A i \in 1..Len(calls) :
      LET data == ObjectOf(calls[i].line)
          payload == calls[i].data
      IN /\ \A k \in DOMAIN data \ {"content"} :
              k \in DOMAIN payload /\ payload[k] = data[k]
         /\ \A k \in {"agent_id", "agent_name", "timestamp", "type", "metadata"} :
              /\ k \in DOMAIN payload
              /\ payload[k] = IF k \in DOMAIN data THEN data[k] ELSE Undefined

\* {"type":"thought","agent_id":null}: the event type is "thinking", the
\* payload's type is "thought", its agent_id null and its metadata undefined
C20_Witness ==
  /\ impl = "workflow"
  /\ status = "resolved"
  /\ Len(calls) = 1
  /\ calls[1].eventType = << "thinking" >>
  /\ calls[1].data["type"] = Str(<< "thought" >>)
  /\ calls[1].data["agent_id"] = Null
  /\ calls[1].data["metadata"] = Undefined

(* ------------------------------ C21 ----------------------------------- *)

\* a 'data: ' line whose trimmed remainder is empty
IsEmptyDataLine(l) == IsDataLine(l) /\ DataOf(l) = << >>

\* the event type a JSON data line is emitted with when it is read with
\* currentEventType = cursor (the objects here have no action_input type)
EmittedType(cursor, data) ==
  IF impl \in Normalising /\ cursor = MESSAGE
  THEN IF Truthy(Get(data, "type")) THEN TableImage(data["type"].v) ELSE MESSAGE
  ELSE cursor

\* C21 as stated: an empty 'data: ' line emits no event and leaves
\* currentEventType unchanged, so that after 'event: X' and an empty data
\* line the type is still X and a JSON data line that follows is emitted
\* with X.
C21_EmptyDataLineNoEffect ==
  Streaming =>
    \A k \in CompleteLines :
      (k >= 2 /\ IsEventLine(Line(k - 1)) /\ IsEmptyDataLine(Line(k))) =>
        /\ ~CalledFor(k)
        /\ k = lineNo => currentEventType = EventTypeOf(Line(k - 1))
        /\ \A i \in 1..Len(calls) :
             calls[i].line = k + 1 => calls[i].eventType = EventTypeOf(Line(k - 1))

\* C21, amended: an empty 'data: ' line emits no event and resets
\* currentEventType to "message", so that after 'event: X' and an empty
\* data line a JSON data line that follows is emitted with the type it has
\* without any 'event:' line.
C21_EmptyDataLineResets ==
  Streaming =>
    \A k \in CompleteLines :
      IsEmptyDataLine(Line(k)) =>
        /\ ~CalledFor(k)
        /\ k = lineNo => currentEventType = MESSAGE
        /\ \A i \in 1..Len(calls) :
             calls[i].line = k + 1 =>
               calls[i].eventType = EmittedType(MESSAGE, ObjectOf(k + 1))

\* 'event: foo', an empty data line, a JSON data line: one event, "thinking"
C21_Witness ==
  /\ impl = "agent"
  /\ status = "resolved"
  /\ NumLines(stream) = 3
  /\ EventTypeOf(Line(1)) = << "foo" >> /\ IsEventLine(Line(1))
  /\ IsEmptyDataLine(Line(2))
  /\ Len(calls) = 1
  /\ calls[1].line = 3
  /\ calls[1].eventType = << "thinking" >>

(* ------------------------------ C22 ----------------------------------- *)

\* the type in force after line k: that of the last 'event: ' line with no
\* 'data: ' line after it, "message" when there is none
RECURSIVE TypeInForce(_)
TypeInForce(k) ==
  IF k = 0 THEN MESSAGE
  ELSE IF IsEventLine(Line(k)) THEN EventTypeOf(Line(k))
  ELSE IF IsDataLine(Line(k)) THEN MESSAGE
  ELSE TypeInForce(k - 1)

\* C22: line classification.  An 'event: ' line sets currentEventType to
\* its trimmed remainder and invokes nothing; a line with neither prefix
\* (blank, comment, 'data:' without the blank, unknown field) invokes
\* nothing and leaves currentEventType and the buffer as they are: the
\* type in force is that of the last 'event: ' line, also across such
\* lines, and the data line is emitted with it.
C22_LineClassification ==
  Streaming =>
    /\ lineNo = NumLines(Delivered)
    /\ buffer = Unterminated(Delivered)
    /\ currentEventType = TypeInForce(lineNo)
    /\ \A k \in CompleteLines : ~IsDataLine(Line(k)) => ~CalledFor(k)
    /\ \A i \in 1..Len(calls) :
         calls[i].eventType =
           EmittedType(TypeInForce(calls[i].line - 1), ObjectOf(calls[i].line))

\* 'event: foo', a blank line, the data line: emitted as "foo"
C22_Witness ==
  /\ impl = "legacyAgent"
  /\ status = "resolved"
  /\ NumLines(stream) = 3
  /\ IsEventLine(Line(1)) /\ EventTypeOf(Line(1)) = << "foo" >>
  /\ Line(2) = << >>
  /\ Len(calls) = 1
  /\ calls[1].line = 3
  /\ calls[1].eventType = << "foo" >>

(* ------------------------------ C23 ----------------------------------- *)

\* C23: the line buffer.  After each chunk the buffer holds no newline and
\* is exactly the text delivered after the last newline; the handler has
\* been invoked only for lines whose newline has arrived, once per JSON
\* data line, also while the buffer already holds a complete JSON text.
C23_LineBuffer ==
  Streaming =>
    /\ \A i \in 1..Len(buffer) : buffer[i] # NL
    /\ buffer = Unterminated(Delivered)
    /\ \A i \in 1..Len(calls) : calls[i].line \in CompleteLines
    /\ Len(calls) = Cardinality({ k \in CompleteLines : IsJsonDataLine(Line(k)) })

\* the stream is open, one event has been delivered, and the buffer holds
\* a second, complete JSON data line whose newline has not arrived
C23_Witness ==
  /\ impl = "workflow"
  /\ status = "open"
  /\ IsJsonDataLine(buffer)
  /\ Len(calls) = 1
  /\ calls[1].line = 1
  /\ lineNo = 1

(* ------------------------------ C24 ----------------------------------- *)

\* the text the second invocation's reader has returned
PeerDelivered == SubSeq(peer.stream, 1, peer.pos)

\* C24: one suspension point.  A step in which one invocation's handler is
\* invoked, however many times, contains no handler invocation of the
\* other invocation; and when a step has taken a chunk, every line the
\* chunk completed has been parsed by the end of that step, before the
\* next read.
C24_SingleSuspensionPoint ==
  [][ /\ calls' # calls => peer.calls' = peer.calls
      /\ peer.calls' # peer.calls => calls' = calls
      /\ pos' # pos => lineNo' = NumLines(Delivered')
      /\ peer.pos' # peer.pos => peer.lineNo' = NumLines(PeerDelivered') ]_vars

\* the second invocation's last pass invoked its handler twice, for the two
\* lines of one chunk, while the first invocation is in the middle of its
\* stream
C24_Witness ==
  /\ peer.burst = 2
  /\ Len(peer.calls) = 2
  /\ status = "open"
  /\ 0 < pos /\ pos < Len(stream)
  /\ buffer # << >>

(* ------------------------------ C26 ----------------------------------- *)

\* a 'data: ' line whose trimmed remainder is not empty
IsNonEmptyDataLine(l) == IsDataLine(l) /\ DataOf(l) # << >>

\* C26: the cursor.  Once a 'data: ' line with a non-empty remainder has
\* been processed (a connection notice, other text, malformed JSON, JSON
\* whose handler threw, or an emitted event), currentEventType is
\* "message"; the JSON data line right after it is emitted with the type it
\* has without any 'event:' line, whatever 'event:' line came before.
C26_CursorAfterDataLine ==
  Streaming =>
    \A k \in CompleteLines :
      IsNonEmptyDataLine(Line(k)) =>
        /\ k = lineNo => currentEventType = MESSAGE
        /\ \A i \in 1..Len(calls) :
             calls[i].line = k + 1 =>
               calls[i].eventType = EmittedType(MESSAGE, ObjectOf(k + 1))

\* 'event: foo', malformed JSON, a JSON data line: the event is not "foo"
C26_Witness ==
  /\ impl = "workflow"
  /\ status = "resolved"
  /\ NumLines(stream) = 3
  /\ IsEventLine(Line(1)) /\ EventTypeOf(Line(1)) = << "foo" >>
  /\ IsMalformedLine(Line(2)) /\ JsonLike(DataOf(Line(2)))
  /\ Len(calls) = 1
  /\ calls[1].line = 3
  /\ calls[1].eventType = << "thinking" >>

(* ------------------------------ C27 ----------------------------------- *)

\* the request whose response carries the events has been sent
ExecuteSent ==
  status \in {"open", "resolved"} \/ failure.phase \in {"execute", "read"}

\* C27: gateway-mode request ordering.  In gateway mode the execute
\* request is sent only from the state the successful connect request
\* leads to; a connect request that fails or is answered with a
\* non-success status ends the call rejected, with the execute request
\* unsent and, in the part_002 copies, exactly one "error" call; nothing is
\* read from the connect response; and no step follows a rejection.
C27_GatewayRequestOrder ==
  [][ mode = "gateway" =>
        /\ (~ExecuteSent /\ ExecuteSent') => status = "connected"
        /\ (failure.kind = "none" /\ failure.phase' = "connect") =>
             /\ status = "idle"
             /\ status' = "rejected"
             /\ ~ExecuteSent'
             /\ Len(calls') = 1
             /\ calls'[1].eventType = << "error" >>
        /\ status' = "connected" => (calls' = << >> /\ pos' = 0 /\ lineNo' = 0)
        /\ pos' # pos => status = "open"
        /\ status # "rejected" ]_vars

\* gateway mode: the connect request was answered 503; one "error" call,
\* the call rejected, nothing read
C27_Witness ==
  /\ mode = "gateway"
  /\ impl = "workflow"
  /\ failure.kind = "status"
  /\ failure.phase = "connect"
  /\ failure.code = "503"
  /\ status = "rejected"
  /\ Len(calls) = 1
  /\ pos = 0

(* -------------------------- the workflow page ------------------------- *)

\* most nodes on the canvas, most edges between them, and most events one
\* execution stream delivers to a component
MaxNodes == 2
MaxEdges == 2
MaxEvents == 2

\* no streaming call is in progress while a component is looked at alone
NoStream ==
  /\ impl = "agent"
  /\ mode = "direct"
  /\ stream = << >>
  /\ pos = 0
  /\ status = "idle"
  /\ buffer = InitialParser.buffer
  /\ currentEventType = InitialParser.currentEventType
  /\ calls = InitialParser.calls
  /\ lineNo = InitialParser.lineNo
  /\ splitPrefix = FALSE
  /\ throwAt = {}
  /\ failure = NoFailure
  /\ peer = NoPeer

\* node ids as getId makes them; the counter restarts at 0 when the module is
\* loaded, so a node dropped after a workflow was restored can carry the id
\* of a restored node
NodeIds == { "node_0", "node_1" }
\* the source or target of a restored edge that no node carries
GHOST == "node_9"

\* a node of the canvas: its id and the two fields of node.data that are read
Node(id, task) == [id |-> id, agentId |-> << "agent", id >>, task |-> task]
TASK == Str(<< "summarise" >>)

\* String(index), for an index that is a natural number
Digit == << "0", "1", "2", "3", "4", "5", "6", "7", "8", "9" >>
RECURSIVE String(_)
String(n) ==
  IF n < 10 THEN << Digit[n + 1] >>
  ELSE String(n \div 10) \o << Digit[(n % 10) + 1] >>

\* a JavaScript number
Num(n) == [t |-> "number", n |-> n]

\* nodeIdToStepIndex[id] after the forEach: a later node overwrites an
\* earlier one with the same id
nodeIdToStepIndex(nodes, id) ==
  (CHOOSE i \in 1..Len(nodes) :
     /\ nodes[i].id = id
     /\ \A j \in (i + 1)..Len(nodes) : nodes[j].id # id) - 1

\* nodes.find(n => n.id === edge.source) ? nodeIdToStepIndex[...] : null
SourceIndex(nodes, edge) ==
  IF \E i \in 1..Len(nodes) : nodes[i].id = edge.source
  THEN Num(nodeIdToStepIndex(nodes, edge.source))
  ELSE Null

IncomingEdges(edges, node) == SelectSeq(edges, LAMBDA edge : edge.target = node.id)

\* as DependsOn, but an edge is counted once per source node
DependsOn_OncePerSource(nodes, edges, node) ==
  LET incoming == IncomingEdges(edges, node)
      first == { k \in 1..Len(incoming) :
                   \A j \in 1..(k - 1) : incoming[j].source # incoming[k].source }
      kept == SelectSeq([k \in 1..Len(incoming) |-> [edge |-> incoming[k], k |-> k]],
                        LAMBDA x : x.k \in first)
      sources == [k \in 1..Len(kept) |-> SourceIndex(nodes, kept[k].edge)]
      found == SelectSeq(sources, LAMBDA index : index # Null)
  IN [k \in 1..Len(found) |-> String(found[k].n)]

\* dependsOn of one node: incoming edges, mapped to the index of their
\* source, nulls dropped, the rest printed
DependsOn(nodes, edges, node) ==
  LET incoming == IncomingEdges(edges, node)
      sources == [k \in 1..Len(incoming) |-> SourceIndex(nodes, incoming[k])]
      found == SelectSeq(sources, LAMBDA index : index # Null)
  IN [k \in 1..Len(found) |-> String(found[k].n)]

convertToWorkflowSteps(nodes, edges) ==
  [i \in 1..Len(nodes) |->
     [agent |-> nodes[i].agentId,
      task |-> Or(nodes[i].task, Str(<< >>)),
      depends_on |-> DependsOn(nodes, edges, nodes[i]),
      condition |-> Null]]

\* validateWorkflow: the message it sets, or Null when the workflow is valid
validateWorkflow(p) ==
  IF Trim(p.workflowName) = << >> THEN Str(<< "Workflow name is required" >>)
  ELSE IF Len(p.nodes) = 0 THEN Str(<< "At least one agent node is required" >>)
  ELSE IF \E i \in 1..Len(p.nodes) :
            ~Truthy(p.nodes[i].task) \/ Trim(p.nodes[i].task.v) = << >>
  THEN Str(<< "The following agent(s) need a task configured" >>)
  ELSE Null

\* a request the page sent
CreateRequest(steps) == [kind |-> "create", id |-> Null, steps |-> steps, via |-> "api"]
ExecuteRequest(id, via) == [kind |-> "execute", id |-> id, steps |-> << >>, via |-> via]

\* the page after it was mounted: the canvas, the form and the React state
PageWith(nodes, edges, name, id, sse) ==
  [pc |-> "idle", nodes |-> nodes, edges |-> edges, workflowName |-> name,
   workflowId |-> id, enableSSE |-> sse, saving |-> FALSE, executing |-> FALSE,
   error |-> Null, success |-> Null, executionId |-> Null,
   executionStatus |-> Null, executionEvents |-> << >>,
   closure |-> Null, requests |-> << >>]

\* from `if (!validateWorkflow()) return` at 837 to the await at 854 or 918
StartExecution(p) ==
  LET message == validateWorkflow(p)
  IN IF message # Null THEN [p EXCEPT !.pc = "done", !.error = message]
     ELSE [p EXCEPT !.pc = "executing",
                    !.executing = TRUE,
                    !.error = Null,
                    !.executionStatus = Str(<< "pending" >>),
                    !.executionEvents = << >>,
                    !.requests = Append(@, ExecuteRequest(p.closure, IF p.enableSSE THEN "sse"
                                                                      ELSE "regular"))]

\* handleExecute up to its first await; `closure` is the `workflowId` of the
\* render the running handler was made in, which setWorkflowId does not change
HandleExecute ==
  /\ page.pc = "idle"
  /\ LET p == [page EXCEPT !.closure = page.workflowId]
         message == validateWorkflow(p)
     IN page' = IF Truthy(p.closure) THEN StartExecution(p)
                ELSE IF message # Null THEN [p EXCEPT !.pc = "done", !.error = message]
                ELSE [p EXCEPT !.pc = "creating",
                               !.saving = TRUE,
                               !.requests = Append(@, CreateRequest(
                                   convertToWorkflowSteps(p.nodes, p.edges)))]
  /\ UNCHANGED << streamVars, chat, http >>

\* what createWorkflow resolves to
CreateResults ==
  { [data |-> Null, error |-> Str(<< "HTTP 500" >>)],
    [data |-> [id |-> Str(<< "wf_1" >>)], error |-> Null],
    [data |-> [id |-> Str(<< "wf_2" >>)], error |-> Null] }

\* handleExecute from the answer of createWorkflow to its next await
CreateReturns ==
  /\ page.pc = "creating"
  /\ \E saveResult \in CreateResults :
       page' = IF saveResult.error # Null
               THEN [page EXCEPT !.pc = "done", !.saving = FALSE,
                                 !.error = saveResult.error]
               ELSE StartExecution([page EXCEPT !.saving = FALSE,
                                                !.workflowId = saveResult.data.id,
                                                !.success = Str(<< "Workflow saved!" >>)])
  /\ UNCHANGED << streamVars, chat, http >>

\* what createExecution resolves to
ExecutionResults ==
  { [data |-> Null, error |-> Str(<< "HTTP 404" >>)],
    [data |-> [id |-> Str(<< "ex_1" >>), status |-> Str(<< "pending" >>)], error |-> Null] }

\* the regular execution: handleExecute after createExecution answered
ExecutionReturns ==
  /\ page.pc = "executing"
  /\ ~page.enableSSE
  /\ \E result \in ExecutionResults :
       page' = IF result.error # Null
               THEN [page EXCEPT !.pc = "done", !.error = result.error,
                                 !.executing = FALSE]
               ELSE [page EXCEPT !.pc = "done", !.executionId = result.data.id,
                                 !.executionStatus = result.data.status]
  /\ UNCHANGED << streamVars, chat, http >>

\* the events executeWorkflowWithSSE hands to the page's handler
PageEvents ==
  { [eventType |-> "workflow_started", data |-> [execution_id |-> Str(<< "ex_1" >>)]],
    [eventType |-> "step_progress", data |-> [step |-> Str(<< "1" >>)]],
    [eventType |-> "workflow_completed", data |-> [execution_id |-> Str(<< "ex_1" >>)]],
    [eventType |-> "workflow_failed", data |-> [error |-> Str(<< "boom" >>)]],
    [eventType |-> "workflow_failed", data |-> [status |-> Str(<< "failed" >>)]],
    [eventType |-> "error", data |-> [error |-> Str(<< "bad" >>)]] }

\* the handler passed to executeWorkflowWithSSE, called with one event
PageEvent ==
  /\ page.pc = "executing"
  /\ page.enableSSE
  /\ Len(page.executionEvents) < MaxEvents
  /\ \E e \in PageEvents :
       LET p == [page EXCEPT !.executionEvents = Append(@, e.eventType)]
       IN page' =
            CASE e.eventType = "workflow_started" ->
                   [p EXCEPT !.executionId = Get(e.data, "execution_id"),
                             !.executionStatus = Str(<< "running" >>)]
              [] e.eventType = "workflow_completed" ->
                   [p EXCEPT !.executionStatus = Str(<< "completed" >>),
                             !.executing = FALSE]
              [] e.eventType = "workflow_failed" ->
                   [p EXCEPT !.executionStatus = Str(<< "failed" >>),
                             !.executing = FALSE,
                             !.error = Or(Get(e.data, "error"),
                                          Str(<< "Workflow execution failed" >>))]
              [] e.eventType = "error" ->
                   [p EXCEPT !.error = Or(Get(e.data, "error"),
                                          Str(<< "An error occurred" >>)),
                             !.executing = FALSE]
              [] OTHER -> p
  /\ UNCHANGED << streamVars, chat, http >>

\* executeWorkflowWithSSE resolved: handleExecute returns
PageStreamResolved ==
  /\ page.pc = "executing"
  /\ page.enableSSE
  /\ page' = [page EXCEPT !.pc = "done"]
  /\ UNCHANGED << streamVars, chat, http >>

\* executeWorkflowWithSSE rejected: the catch of handleExecute
PageStreamRejected ==
  /\ page.pc = "executing"
  /\ page.enableSSE
  /\ page' = [page EXCEPT !.pc = "done",
                          !.error = Str(<< "Failed to fetch" >>),
                          !.executing = FALSE]
  /\ UNCHANGED << streamVars, chat, http >>

\* the canvases: at most MaxNodes nodes, ids possibly repeated, and at most
\* MaxEdges edges between node ids or the id no node carries
NodeLists ==
  UNION { { [k \in 1..n |-> Node(ids[k], TASK)] : ids \in [1..n -> NodeIds] } :
          n \in 0..MaxNodes }
Edge(source, target) == [source |-> source, target |-> target]
EdgeLists ==
  LET ends == NodeIds \cup { GHOST }
  IN UNION { [1..n -> { Edge(a, b) : a \in ends, b \in ends }] : n \in 0..MaxEdges }

\* an unsaved workflow with a name and a task on every node; regular execution
InitGraph ==
  /\ NoStream
  /\ chat = NoChat
  /\ http = NoHttp
  /\ \E nodes \in NodeLists, edges \in EdgeLists :
       page = PageWith(nodes, edges, << "wf" >>, Null, FALSE)

NextGraph == HandleExecute \/ CreateReturns \/ ExecutionReturns

SpecGraph == InitGraph /\ [][NextGraph]_vars

(* ------------------------------- C25 ---------------------------------- *)

\* the number a string of decimal digits denotes
RECURSIVE ValueOf(_)
ValueOf(str) ==
  IF str = << >> THEN 0
  ELSE 10 * ValueOf(SubSeq(str, 1, Len(str) - 1))
       + (CHOOSE d \in 0..9 : Digit[d + 1] = str[Len(str)])

\* str is how n is written in decimal
IsDecimalOf(str, n) ==
  /\ str # << >>
  /\ \A k \in 1..Len(str) : \E d \in 1..10 : Digit[d] = str[k]
  /\ Len(str) > 1 => str[1] # "0"
  /\ ValueOf(str) = n

\* the steps of the create requests sent so far
StepsSent == { page.requests[r].steps : r \in { k \in 1..Len(page.requests) :
                                                   page.requests[k].kind = "create" } }

\* C25: the steps sent for a canvas are one per node, in node order; the
\* depends_on list of step i has one entry per edge whose target is node i
\* and whose source is the id of a node, each entry the decimal string of a
\* valid step index, namely the index of a node with the id of the edge's
\* source; edges from an id no node carries add nothing; and a self-loop on
\* a node makes its step depend on itself.
C25_GraphToSteps ==
  \A steps \in StepsSent :
    LET nodes == page.nodes
        edges == page.edges
    IN /\ Len(steps) = Len(nodes)
       /\ \A i \in 1..Len(nodes) :
            LET deps == steps[i].depends_on
                live == { k \in 1..Len(edges) :
                            /\ edges[k].target = nodes[i].id
                            /\ \E j \in 1..Len(nodes) : nodes[j].id = edges[k].source }
                IndexOf(id) == { j \in 1..Len(nodes) : nodes[j].id = id }
            IN /\ steps[i].agent = nodes[i].agentId
               /\ Len(deps) = Cardinality(live)
               /\ \A d \in 1..Len(deps) :
                    \E j \in 1..Len(nodes) : IsDecimalOf(deps[d], j - 1)
               /\ \A id \in NodeIds :
                    Cardinality({ d \in 1..Len(deps) :
                                    \E j \in IndexOf(id) : IsDecimalOf(deps[d], j - 1) })
                      = Cardinality({ k \in live : edges[k].source = id })
               /\ ( /\ IndexOf(nodes[i].id) = { i }
                    /\ \E k \in 1..Len(edges) : edges[k] = Edge(nodes[i].id, nodes[i].id) )
                  => \E d \in 1..Len(deps) : IsDecimalOf(deps[d], i - 1)

\* two nodes, a self-loop on the second and an edge to it from an id that no
\* node carries: the second step depends on itself only
C25_Witness ==
  /\ Len(page.nodes) = 2
  /\ page.nodes[1].id = "node_0"
  /\ page.nodes[2].id = "node_1"
  /\ page.edges = << Edge("node_1", "node_1"), Edge(GHOST, "node_1") >>
  /\ \E steps \in StepsSent :
       /\ steps[1].depends_on = << >>
       /\ steps[2].depends_on = << << "1" >> >>

(* ------------------------------- C29 ---------------------------------- *)

\* the pages handleExecute is pressed on: an empty canvas, a node without a
\* task, one or two configured nodes; a missing, blank or given name; a
\* workflow that was saved before or not; streaming or regular execution
ExecuteNodeLists ==
  { << >>,
    << Node("node_0", Str(<< >>)) >>,
    << Node("node_0", TASK) >>,
    << Node("node_0", TASK), Node("node_1", TASK) >> }
ExecuteNames == { << >>, << SP >>, << "wf" >> }

InitExecute ==
  /\ NoStream
  /\ chat = NoChat
  /\ http = NoHttp
  /\ \E nodes \in ExecuteNodeLists,
        edges \in { << >>, << Edge("node_0", "node_1") >> },
        name \in ExecuteNames,
        id \in { Null, Str(<< "wf_0" >>) },
        sse \in BOOLEAN :
       page = PageWith(nodes, edges, name, id, sse)

NextExecute ==
  \/ HandleExecute
  \/ CreateReturns
  \/ ExecutionReturns
  \/ PageEvent
  \/ PageStreamResolved
  \/ PageStreamRejected

SpecExecute == InitExecute /\ [][NextExecute]_vars

\* the positions of the requests of one kind among those the page sent
RequestsOf(kind) == { k \in 1..Len(page.requests) : page.requests[k].kind = kind }

\* handleExecute was pressed on an unsaved, valid workflow and went on to
\* create it
AutoSaved == RequestsOf("create") # { }

ChatIdle ==
  [pc |-> "idle", isStreaming |-> FALSE, loading |-> FALSE, error |-> Undefined,
   success |-> Undefined, content |-> Str(<< >>), thinkingLogs |-> << >>,
   events |-> 0]

\* handleStreamingExecution up to await executeAgentWithLogs: isStreaming is
\* set and the placeholder message of this execution is appended
HandleStreamingExecution ==
  /\ chat.pc = "idle"
  /\ chat' = [chat EXCEPT !.pc = "streaming", !.isStreaming = TRUE, !.loading = TRUE,
                          !.content = Str(<< >>), !.thinkingLogs = << >>]
  /\ UNCHANGED << streamVars, page, http >>

\* the events executeAgentWithLogs hands to the handler of the ChatBot
ChatEvents ==
  { [eventType |-> "thinking", data |-> [content |-> Str(<< "hmm" >>)]],
    [eventType |-> "action", data |-> [type |-> Str(<< "action_input" >>)]],
    [eventType |-> "action", data |-> [content |-> Str(<< "search" >>)]],
    [eventType |-> "observation", data |-> [content |-> Str(<< "found" >>)]],
    [eventType |-> "final_answer", data |-> [content |-> Str(<< "done" >>)]],
    [eventType |-> "complete", data |-> [success |-> True, result |-> Str(<< "done" >>)]],
    [eventType |-> "complete", data |-> [success |-> False, error |-> Str(<< "bad" >>)]],
    [eventType |-> "complete", data |-> [success |-> True]],
    [eventType |-> "error", data |-> [error |-> Str(<< "bad" >>)]],
    [eventType |-> "error", data |-> [message |-> Str(<< "msg" >>)]],
    [eventType |-> "message", data |-> [content |-> Str(<< "hello" >>)]] }

\* `Error: ${text}`
ErrorContent(text) == Str(<< "Error: " >> \o text.v)

\* the placeholder message after the handler saw one event
UpdateMessage(msg, e) ==
  LET push(type) == [msg EXCEPT !.thinkingLogs = Append(@, type)]
  IN CASE e.eventType = "thinking" -> push("thought")
       [] e.eventType = "action" ->
            IF Get(e.data, "type") = Str(<< "action_input" >>)
            THEN push("action_input") ELSE push("action")
       [] e.eventType = "observation" -> push("observation")
       [] e.eventType = "final_answer" ->
            [push("final_answer") EXCEPT !.content = Get(e.data, "content"),
                                         !.loading = FALSE, !.success = True]
       [] e.eventType = "complete" ->
            IF /\ Truthy(Get(e.data, "success"))
               /\ Truthy(Get(e.data, "result"))
               /\ ~Truthy(Get(e.data, "error"))
            THEN [msg EXCEPT !.loading = FALSE, !.success = True]
            ELSE IF Truthy(Get(e.data, "error"))
            THEN [msg EXCEPT !.content = ErrorContent(Get(e.data, "error")),
                             !.error = True, !.loading = FALSE]
            ELSE msg
       [] e.eventType = "error" ->
            [msg EXCEPT !.content = ErrorContent(Or(Get(e.data, "error"),
                                                    Str(<< "Unknown error" >>))),
                        !.error = True, !.loading = FALSE]
       [] OTHER -> msg

\* the handler passed to executeAgentWithLogs, called with one event
ChatEvent ==
  /\ chat.pc = "streaming"
  /\ chat.events < MaxEvents
  /\ \E e \in ChatEvents :
       chat' = [UpdateMessage(chat, e) EXCEPT !.events = @ + 1]
  /\ UNCHANGED << streamVars, page, http >>

\* executeAgentWithLogs resolved: the stream closed
ChatStreamResolved ==
  /\ chat.pc = "streaming"
  /\ chat' = [chat EXCEPT !.pc = "done", !.isStreaming = FALSE]
  /\ UNCHANGED << streamVars, page, http >>

\* executeAgentWithLogs rejected: the catch replaces the placeholder
ChatStreamRejected ==
  /\ chat.pc = "streaming"
  /\ chat' = [chat EXCEPT !.pc = "done", !.isStreaming = FALSE,
                          !.content = ErrorContent(Str(<< "Failed to fetch" >>)),
                          !.error = True, !.loading = FALSE,
                          !.success = Undefined, !.thinkingLogs = << >>]
  /\ UNCHANGED << streamVars, page, http >>

InitChat ==
  /\ NoStream
  /\ page = NoPage
  /\ http = NoHttp
  /\ chat = ChatIdle

NextChat ==
  \/ HandleStreamingExecution
  \/ ChatEvent
  \/ ChatStreamResolved
  \/ ChatStreamRejected

SpecChat == InitChat /\ [][NextChat]_vars

(* ------------------------------- C28 ---------------------------------- *)

\* C28: once handleStreamingExecution has finished, because the stream
\* closed or because executeAgentWithLogs rejected, isStreaming is false
\* and the placeholder message of the execution is not marked loading,
\* whatever events the stream carried.
C28_LoadingCleared ==
  chat.pc = "done" => (~chat.isStreaming /\ ~chat.loading)

(* ------------------------------ apiRequest ---------------------------- *)

\* a JSON array, and the object FastAPI reports one validation error with
Arr(items) == [t |-> "array", v |-> items]
ValidationError(loc, msg) == [t |-> "object", v |-> << >>, loc |-> loc, msg |-> msg]

\* response.status, response.statusText and response.ok
ApiStatuses ==
  { [code |-> "200", text |-> "OK", ok |-> TRUE],
    [code |-> "204", text |-> "No Content", ok |-> TRUE],
    [code |-> "404", text |-> "Not Found", ok |-> FALSE],
    [code |-> "422", text |-> "Unprocessable Entity", ok |-> FALSE],
    [code |-> "500", text |-> "Internal Server Error", ok |-> FALSE] }

\* the body of a response: its text and, when the text is JSON, its value
ApiBodies ==
  { [ok |-> FALSE, text |-> << >>, value |-> Undefined],
    [ok |-> FALSE, text |-> << "oops" >>, value |-> Undefined],
    [ok |-> TRUE, text |-> << "null" >>, value |-> Null],
    [ok |-> TRUE, text |-> << "{", "}" >>, value |-> << >>],
    [ok |-> TRUE, text |-> << "{", "id", "}" >>, value |-> [id |-> Str(<< "wf_1" >>)]],
    [ok |-> TRUE, text |-> << "{", "detail", "}" >>,
     value |-> [detail |-> Str(<< "boom" >>)]],
    [ok |-> TRUE, text |-> << "{", "error", "}" >>,
     value |-> [error |-> Str(<< "bad" >>)]],
    [ok |-> TRUE, text |-> << "{", "message", "}" >>,
     value |-> [message |-> Str(<< "msg" >>)]],
    [ok |-> TRUE, text |-> << "{", "detail", "[", "]", "}" >>,
     value |-> [detail |-> Arr(<< >>)]],
    [ok |-> TRUE, text |-> << "{", "detail", "[", "{", "}", "]", "}" >>,
     value |-> [detail |-> Arr(<< ValidationError(<< "body.name" >>, << "required" >>) >>)]],
    [ok |-> TRUE, text |-> << "{", "detail", "{", "}", "}" >>,
     value |-> [detail |-> ValidationError(<< "body.name" >>, << "required" >>)]] }

\* what fetch does: it rejects, or it resolves to a response
ApiResponses ==
  { [network |-> TRUE, status |-> [code |-> "", text |-> "", ok |-> FALSE],
     json |-> FALSE, body |-> [ok |-> FALSE, text |-> << >>, value |-> Undefined]] }
  \cup
  { [network |-> FALSE, status |-> st, json |-> js, body |-> b] :
      st \in ApiStatuses, js \in BOOLEAN, b \in ApiBodies }

\* the two copies of apiRequest
ApiCopies == { "part_002", "lib" }

\* a step of the try block: a value, or an exception with its message
Returned(value) == [thrown |-> FALSE, value |-> value, message |-> << >>]
Thrown(message) == [thrown |-> TRUE, value |-> Null, message |-> message]

\* `${err.loc.join('.')}: ${err.msg}`, joined with '; '
RECURSIVE JoinValidationErrors(_)
JoinValidationErrors(items) ==
  IF items = << >> THEN << >>
  ELSE LET head == Head(items).loc \o << ": " >> \o Head(items).msg
       IN IF Len(items) = 1 THEN head
          ELSE head \o << "; " >> \o JoinValidationErrors(Tail(items))

\* new Error(x).message: String(x)
RECURSIVE MessageOf(_)
MessageOf(x) ==
  CASE x.t = "string" -> x.v
    [] x.t = "array" ->
         IF x.v = << >> THEN << >>
         ELSE IF Len(x.v) = 1 THEN << "[object Object]" >>
         ELSE << "[object Object]", "," >> \o MessageOf(Arr(Tail(x.v)))
    [] x.t = "object" -> << "[object Object]" >>
    [] OTHER -> << x.t >>

\* the body as `data`, in part_002: response.json() or the parsed text; a
\* body that is not JSON becomes { error: text || `HTTP ${status}` }, unless
\* response.json() has already used the body up, when response.text() throws
ReadData(r) ==
  IF r.body.ok THEN Returned(r.body.value)
  ELSE IF r.json THEN Thrown(<< "body stream already read" >>)
  ELSE Returned([error |-> Or(Str(r.body.text), Str(HttpStatus(r.status.code)))])

\* errorMessage of part_002 for a response that is not ok
ApiErrorMessage(data, st) ==
  LET detail == Get(data, "detail")
      first == Or(Or(Or(detail, Get(data, "error")), Get(data, "message")),
                  Str(HttpStatus(st.code) \o << ": ", st.text >>))
  IN IF detail.t = "array"
     THEN Or(Str(JoinValidationErrors(detail.v)), first)
     ELSE IF detail.t = "object" THEN Str(detail.loc \o << ": " >> \o detail.msg)
     ELSE first

\* reading a property of null throws a TypeError
NULL_PROPERTY == << "Cannot read properties of null" >>

\* the try block of part_002
TryRequest(r) ==
  IF r.network THEN Thrown(<< "Failed to fetch" >>)
  ELSE LET read == ReadData(r)
       IN IF read.thrown THEN read
          ELSE IF r.status.ok THEN Returned(read.value)
          ELSE IF read.value = Null THEN Thrown(NULL_PROPERTY)
          ELSE Thrown(MessageOf(ApiErrorMessage(read.value, r.status)))

\* the try block of lib/api.js
LegacyTryRequest(r) ==
  IF r.network THEN Thrown(<< "Failed to fetch" >>)
  ELSE IF ~r.body.ok THEN Thrown(<< "Unexpected token" >>)
  ELSE IF r.status.ok THEN Returned(r.body.value)
  ELSE IF r.body.value = Null THEN Thrown(NULL_PROPERTY)
  ELSE Thrown(MessageOf(Or(Or(Get(r.body.value, "detail"), Get(r.body.value, "error")),
                           Str(HttpStatus(r.status.code)))))

\* what the promise of apiRequest settles to
Resolved(data, error) == [settled |-> "resolved", data |-> data, error |-> error]
Rejected(message) == [settled |-> "rejected", data |-> Undefined, error |-> Str(message)]

\* as CatchRequest, but an exception leaves the function
CatchRequest_Rethrows(attempt) ==
  IF attempt.thrown THEN Rejected(attempt.message) ELSE Resolved(attempt.value, Null)

\* return { data, error: null } / catch (error) { return { data: null, error: ... } }
CatchRequest(attempt) ==
  IF attempt.thrown THEN Resolved(Null, Str(attempt.message))
  ELSE Resolved(attempt.value, Null)

apiRequest(copy, r) ==
  CatchRequest(IF copy = "lib" THEN LegacyTryRequest(r) ELSE TryRequest(r))

\* one call of a CRUD helper: `return apiRequest(...)`
ApiRequest ==
  /\ http.pc = "pending"
  /\ http' = [http EXCEPT !.pc = "settled",
                          !.result = apiRequest(http.copy, http.response)]
  /\ UNCHANGED << streamVars, page, chat >>

InitApi ==
  /\ NoStream
  /\ page = NoPage
  /\ chat = NoChat
  /\ \E copy \in ApiCopies, r \in ApiResponses :
       http = [pc |-> "pending", copy |-> copy, response |-> r,
               result |-> Resolved(Null, Null)]

NextApi == ApiRequest

SpecApi == InitApi /\ [][NextApi]_vars

(* ------------------------------- C30 ---------------------------------- *)

\* the call failed: fetch rejected, the status is not a success, or the
\* body could not be read as the copy reads it (lib/api.js always calls
\* response.json(); part_002 falls back to the text unless the content type
\* announced JSON)
ApiFailed ==
  LET r == http.response
  IN \/ r.network
     \/ ~r.status.ok
     \/ ~r.body.ok /\ (http.copy = "lib" \/ r.json)

\* C30: apiRequest never rejects. Whatever the HTTP call does, the promise
\* resolves to an object with data and error; when the call failed (network
\* failure, non-success status, or an exception while reading the body)
\* data is null and error is a string; otherwise error is null and data is
\* the parsed body, or { error: text } for a body part_002 could not parse.
C30_ApiRequestNeverRejects ==
  http.pc = "settled" =>
    LET r == http.response
        result == http.result
    IN /\ result.settled = "resolved"
       /\ ApiFailed => (result.data = Null /\ result.error.t = "string")
       /\ ~ApiFailed =>
            /\ result.error = Null
            /\ r.body.ok => result.data = r.body.value
            /\ ~r.body.ok => Get(result.data, "error").t = "string"

\* part_002, status 200 with a plain-text body: it resolves with the text
\* wrapped as data and no error
C30_Witness ==
  /\ http.pc = "settled"
  /\ http.copy = "part_002"
  /\ http.response.status.code = "200"
  /\ ~http.response.json
  /\ http.response.body.text = << "oops" >>
  /\ http.result = Resolved([error |-> Str(<< "oops" >>)], Null)

====
